---- MODULE Spec2Model ----
(***************************************************************************)
(* Model of src/arduino_iot_system.ino: the actuator-side controller of    *)
(* the drowsiness-alert system.  The sketch's globals and its output pins  *)
(* are the state; one loop() iteration is three steps: the serial command  *)
(* (lines 77-81), the alert handling with the heartbeat (lines 84-92) and  *)
(* the delay (line 94).  Time is in milliseconds, as millis() returns it.  *)
(***************************************************************************)
EXTENDS Integers, Sequences, FiniteSets, TLC

\* ------------------------------------------------------------------ pins
LED_GREEN == 12
LED_YELLOW == 11
LED_RED == 13
VIBRATOR_PIN == 10
LOW == 0
HIGH == 1
DigitalPins == {LED_GREEN, LED_YELLOW, LED_RED, VIBRATOR_PIN}

\* ------------------------------------------------------- integer widths
\* int is 16 bits wide on the Arduino Uno.
IntModulus == 65536

\* a - b in unsigned long arithmetic, for millis() - someEarlierTime.  Every
\* time the sketch stores is an earlier value of millis() (TimesArePast below)
\* and the horizon is far under 2^32 ms, so the difference never wraps.
ULongSub(a, b) == a - b

\* A long stored into an int: the low 16 bits, two's complement.
ToInt16(v) ==
  LET m == v % IntModulus
  IN  IF m >= IntModulus \div 2 THEN m - IntModulus ELSE m

\* map(x, 0, 100, 0, 255) of the Arduino core, as activateNFP calls it.
MapIntensity(intensity) == (intensity * 255) \div 100

\* ------------------------------------------------------- command lines
\* A line is a sequence of one-character strings.
INIT_LINE == <<"I", "N", "I", "T">>
SHUTDOWN_LINE == <<"S", "H", "U", "T", "D", "O", "W", "N">>
ALERT_PREFIX == <<"A", "L", "E", "R", "T", ":">>
BP_PREFIX == <<"B", "P", "_", "R", "E", "Q", "U", "E", "S", "T", ":">>

Whitespace == {" ", "\t", "\r", "\n"}
DigitChars == {"0", "1", "2", "3", "4", "5", "6", "7", "8", "9"}
DigitSeq == <<"0", "1", "2", "3", "4", "5", "6", "7", "8", "9">>
DigitVal(c) == (CHOOSE i \in 1..10 : DigitSeq[i] = c) - 1

\* String::startsWith
startsWith(line, prefix) ==
  /\ Len(line) >= Len(prefix)
  /\ SubSeq(line, 1, Len(prefix)) = prefix

\* String::substring(from), from counted from 0
substring(line, from) == SubSeq(line, from + 1, Len(line))

\* String::trim: leading and trailing whitespace removed.
RECURSIVE trimLeft(_)
trimLeft(s) ==
  IF s # <<>> /\ Head(s) \in Whitespace THEN trimLeft(Tail(s)) ELSE s
RECURSIVE trimRight(_)
trimRight(s) ==
  IF s # <<>> /\ s[Len(s)] \in Whitespace
  THEN trimRight(SubSeq(s, 1, Len(s) - 1))
  ELSE s
trim(s) == trimRight(trimLeft(s))

\* The digits of s from position i on, read as atol reads them: it stops at
\* the first character that is no digit.
RECURSIVE ParseDigits(_, _, _)
ParseDigits(s, i, acc) ==
  IF i > Len(s) \/ s[i] \notin DigitChars
  THEN acc
  ELSE ParseDigits(s, i + 1, acc * 10 + DigitVal(s[i]))

\* String::toInt, which is atol: optional whitespace, optional sign, then
\* digits; 0 when no digit is there.
toInt(str) ==
  LET s == trimLeft(str)
      signed == s # <<>> /\ s[1] \in {"-", "+"}
      magnitude == ParseDigits(s, IF signed THEN 2 ELSE 1, 0)
  IN  IF signed /\ s[1] = "-" THEN -magnitude ELSE magnitude

\* ---------------------------------------------------------------- state
VARIABLES
  now,                \* millis()
  pc,                 \* where loop() stands: "command", "alerts" or "delay"
  currentAlertLevel,  \* line 31
  lastBPTime,         \* line 32
  lastHeartbeatTime,  \* line 33
  alertStartTime,     \* line 34
  systemActive,       \* line 35
  emergencyMode,      \* line 36
  lastEscalation,     \* line 356, static in emergencyEscalation
  toneHz,             \* the frequency the buzzer pin sounds, 0 when silent
  pin,                \* the level of each digital output pin
  nfpCommand,         \* the haptic driver's command register (1 = active)
  nfpIntensity,       \* the haptic driver's intensity register
  serial,             \* the lines printed so far in this loop() iteration
  line,               \* the command read in this iteration, NoLine if none
  linesRead,          \* how many lines the host has sent so far
  quick,              \* how many iterations of loop() ended without a stall
  before,             \* the level and the times the command found
  emergencyAt,        \* when the last two emergency messages were printed, -1 for none
  heartbeatAt         \* when the last heartbeat was printed, -1 for none

vars == <<now, pc, currentAlertLevel, lastBPTime, lastHeartbeatTime,
          alertStartTime, systemActive, emergencyMode, lastEscalation,
          toneHz, pin, nfpCommand, nfpIntensity, serial, line, linesRead,
          quick, before, emergencyAt, heartbeatAt>>

\* The sketch's globals and outputs as one record, which the operators below
\* take and return as the functions of the sketch read and write them.
State ==
  [currentAlertLevel |-> currentAlertLevel, lastBPTime |-> lastBPTime,
   lastHeartbeatTime |-> lastHeartbeatTime, alertStartTime |-> alertStartTime,
   systemActive |-> systemActive, emergencyMode |-> emergencyMode,
   lastEscalation |-> lastEscalation, toneHz |-> toneHz, pin |-> pin,
   nfpCommand |-> nfpCommand, nfpIntensity |-> nfpIntensity,
   serial |-> serial]

\* ------------------------------------------------------ output primitives
println(s, msg) == [s EXCEPT !.serial = Append(@, msg)]
Text(str) == [type |-> "text", text |-> str]

tone(s, frequency) == [s EXCEPT !.toneHz = frequency]
noTone(s) == [s EXCEPT !.toneHz = 0]
digitalWrite(s, p, value) == [s EXCEPT !.pin[p] = value]

activateNFP(s, intensity) ==
  [s EXCEPT !.nfpCommand = 1, !.nfpIntensity = MapIntensity(intensity)]
deactivateNFP(s) == [s EXCEPT !.nfpCommand = 0]

\* ------------------------------------------------------------ indicators
updateLEDs(s, t) ==
  LET off == digitalWrite(digitalWrite(digitalWrite(s, LED_GREEN, LOW),
                                       LED_YELLOW, LOW), LED_RED, LOW)
  IN  CASE s.currentAlertLevel = 0 -> digitalWrite(off, LED_GREEN, HIGH)
        [] s.currentAlertLevel = 1 -> digitalWrite(off, LED_YELLOW, HIGH)
        [] s.currentAlertLevel = 2 -> digitalWrite(off, LED_RED, HIGH)
        [] s.currentAlertLevel = 3 ->
             digitalWrite(off, LED_RED, (t \div 250) % 2)
        [] OTHER -> off

handleHapticFeedback(s, t) ==
  CASE s.currentAlertLevel = 0 -> deactivateNFP(s)
    [] s.currentAlertLevel = 1 ->
         IF ULongSub(t, s.alertStartTime) % 5000 < 200
         THEN activateNFP(s, 30)
         ELSE deactivateNFP(s)
    [] OTHER -> s

\* ---------------------------------------------------------- alert levels
AlertNames == <<"NORMAL", "WARNING", "CRITICAL", "EMERGENCY">>

\* Mutant of levelRejected: the test for negative levels is missing.
levelRejected_UpperOnly(level) == level > 3

\* line 130: the levels setAlertLevel refuses
levelRejected(level) == level < 0 \/ level > 3

\* Mutant of resetAlertTiming: the timing restarts on every call.
resetAlertTiming_Always(s, previousLevel, level, t) ==
  [s EXCEPT !.alertStartTime = t]

\* Mutant of resetAlertTiming: the timing never restarts.
resetAlertTiming_Never(s, previousLevel, level, t) == s

\* lines 135-138: the alert timing restarts when the level changed
resetAlertTiming(s, previousLevel, level, t) ==
  IF previousLevel # level THEN [s EXCEPT !.alertStartTime = t] ELSE s

\* lines 147-157: the log lines and the emergency flag
logAlertChange(s, level) ==
  IF level > 0
  THEN LET s1 == println(s, [type |-> "alert", name |-> AlertNames[level + 1]])
       IN  IF level = 3
           THEN println([s1 EXCEPT !.emergencyMode = TRUE],
                        Text("EMERGENCY MODE ACTIVATED!"))
           ELSE s1
  ELSE [s EXCEPT !.emergencyMode = FALSE]

setAlertLevel(s, level, t) ==
  IF levelRejected(level)
  THEN s
  ELSE LET previousLevel == s.currentAlertLevel
           s1 == [s EXCEPT !.currentAlertLevel = level]
           s2 == resetAlertTiming(s1, previousLevel, level, t)
           s3 == updateLEDs(s2, t)
           s4 == handleHapticFeedback(s3, t)
       IN  logAlertChange(s4, level)

\* Mutant of initializeSystem: the red LED is not switched off.
initializeSystem_RedLeftOn(s) ==
  LET s1 == [s EXCEPT !.systemActive = TRUE, !.currentAlertLevel = 0,
                      !.emergencyMode = FALSE]
      s2 == digitalWrite(digitalWrite(s1, LED_GREEN, HIGH), LED_YELLOW, LOW)
  IN  println(s2, Text("System initialized - Ready for drowsiness detection"))

initializeSystem(s) ==
  LET s1 == [s EXCEPT !.systemActive = TRUE, !.currentAlertLevel = 0,
                      !.emergencyMode = FALSE]
      s2 == digitalWrite(digitalWrite(digitalWrite(s1, LED_GREEN, HIGH),
                                      LED_YELLOW, LOW), LED_RED, LOW)
  IN  println(s2, Text("System initialized - Ready for drowsiness detection"))

\* Mutant of shutdownSystem: the haptic driver is not deactivated.
shutdownSystem_HapticLeftOn(s) ==
  LET s1 == [s EXCEPT !.systemActive = FALSE, !.currentAlertLevel = 0,
                      !.emergencyMode = FALSE]
      s2 == noTone(s1)
      s3 == digitalWrite(digitalWrite(digitalWrite(s2, LED_GREEN, LOW),
                                      LED_YELLOW, LOW), LED_RED, LOW)
      s4 == digitalWrite(s3, VIBRATOR_PIN, LOW)
  IN  println(s4, Text("System shutdown complete"))

shutdownSystem(s) ==
  LET s1 == [s EXCEPT !.systemActive = FALSE, !.currentAlertLevel = 0,
                      !.emergencyMode = FALSE]
      s2 == noTone(s1)
      s3 == digitalWrite(digitalWrite(digitalWrite(s2, LED_GREEN, LOW),
                                      LED_YELLOW, LOW), LED_RED, LOW)
      s4 == digitalWrite(s3, VIBRATOR_PIN, LOW)
      s5 == deactivateNFP(s4)
  IN  println(s5, Text("System shutdown complete"))

\* -------------------------------------------------------------- telemetry
baselineSystolic == 120
baselineDiastolic == 80
baselineHeartRate == 72

\* A random(min, max) that can return max as well.
random_Inclusive(min, max) == min..max

\* random(min, max) of the Arduino core returns a value in min..max-1.
random(min, max) == min..(max - 1)

\* The three values sendBPData can draw at a level, in the order it draws.
BPDraws(level) ==
  CASE level = 0 -> random(-5, 6) \X random(-3, 4) \X random(-5, 6)
    [] level = 1 -> random(5, 15) \X random(3, 8) \X random(5, 15)
    [] level = 2 -> random(15, 25) \X random(8, 15) \X random(15, 25)
    [] level = 3 -> random(25, 40) \X random(15, 25) \X random(25, 40)
    [] OTHER -> {<<0, 0, 0>>}

sendBPData(s, t, draw) ==
  LET msg == [type |-> "bp",
              systolic |-> baselineSystolic + draw[1],
              diastolic |-> baselineDiastolic + draw[2],
              heartRate |-> baselineHeartRate + draw[3],
              timestamp |-> t]
  IN  [println(s, msg) EXCEPT !.lastBPTime = t]

sendHeartbeat(s, t) ==
  println(s, [type |-> "heartbeat", alertLevel |-> s.currentAlertLevel,
              uptime |-> t,
              emergency |-> IF s.emergencyMode THEN "true" ELSE "false"])

\* --------------------------------------------------------------- commands
isBPRequest(command) == startsWith(command, BP_PREFIX)

processCommand(s, command, t, draw) ==
  IF command = INIT_LINE THEN initializeSystem(s)
  ELSE IF startsWith(command, ALERT_PREFIX)
  THEN setAlertLevel(s, ToInt16(toInt(substring(command, 6))), t)
  ELSE IF isBPRequest(command) THEN sendBPData(s, t, draw)
  ELSE IF command = SHUTDOWN_LINE THEN shutdownSystem(s)
  ELSE println(s, [type |-> "unknown", command |-> command])

\* ------------------------------------------------------------ alert patterns
\* Mutant of escalationDue: an escalation exactly 3000 ms old lets the next one
\* through.
escalationDue_Inclusive(s, t) == ULongSub(t, s.lastEscalation) >= 3000

\* line 358: the gate of the escalation
escalationDue(s, t) == ULongSub(t, s.lastEscalation) > 3000

\* Mutant of emergencyEscalation: the time of the escalation is not recorded.
emergencyEscalation_NotRecorded(s, t) ==
  IF escalationDue(s, t)
  THEN LET s1 == println(s, [type |-> "emergency"])
       IN  digitalWrite(activateNFP(tone(s1, 4500), 100), VIBRATOR_PIN, HIGH)
  ELSE s

emergencyEscalation(s, t) ==
  IF escalationDue(s, t)
  THEN LET s1 == println(s, [type |-> "emergency"])
           s2 == digitalWrite(activateNFP(tone(s1, 4500), 100),
                              VIBRATOR_PIN, HIGH)
       IN  [s2 EXCEPT !.lastEscalation = t]
  ELSE s

handleWarningAlert(s, currentTime) ==
  IF ULongSub(currentTime, s.alertStartTime) % 2000 < 400
  THEN tone(s, 2500)
  ELSE noTone(s)

\* A critical pattern whose first beep leaves the haptic driver alone.
handleCriticalAlert_NoHaptic(s, currentTime) ==
  LET pattern == ULongSub(currentTime, s.alertStartTime) % 1500
  IN  IF pattern < 400 THEN tone(s, 3000)
      ELSE IF pattern < 500 THEN noTone(s)
      ELSE IF pattern < 900 THEN tone(s, 3200)
      ELSE deactivateNFP(noTone(s))

\* A critical pattern whose first beep still sounds at 400 ms.
handleCriticalAlert_LongFirstBeep(s, currentTime) ==
  LET pattern == ULongSub(currentTime, s.alertStartTime) % 1500
  IN  IF pattern <= 400 THEN activateNFP(tone(s, 3000), 50)
      ELSE IF pattern < 500 THEN noTone(s)
      ELSE IF pattern < 900 THEN tone(s, 3200)
      ELSE deactivateNFP(noTone(s))

handleCriticalAlert(s, currentTime) ==
  LET pattern == ULongSub(currentTime, s.alertStartTime) % 1500
  IN  IF pattern < 400 THEN activateNFP(tone(s, 3000), 50)
      ELSE IF pattern < 500 THEN noTone(s)
      ELSE IF pattern < 900 THEN tone(s, 3200)
      ELSE deactivateNFP(noTone(s))

\* line 224: the emergency has lasted long enough to escalate
escalationThresholdPassed(s, currentTime) ==
  ULongSub(currentTime, s.alertStartTime) > 10000

handleEmergencyAlert(s, currentTime) ==
  LET pattern == ULongSub(currentTime, s.alertStartTime) % 800
      s1 == IF pattern < 400
            THEN digitalWrite(activateNFP(tone(s, 4000), 100),
                              VIBRATOR_PIN, HIGH)
            ELSE digitalWrite(activateNFP(tone(s, 3800), 80),
                              VIBRATOR_PIN, LOW)
  IN  IF escalationThresholdPassed(s1, currentTime)
      THEN emergencyEscalation(s1, currentTime)
      ELSE s1

handleAlerts(s, t) ==
  CASE s.currentAlertLevel = 0 -> digitalWrite(noTone(s), VIBRATOR_PIN, LOW)
    [] s.currentAlertLevel = 1 -> handleWarningAlert(s, t)
    [] s.currentAlertLevel = 2 -> handleCriticalAlert(s, t)
    [] s.currentAlertLevel = 3 -> handleEmergencyAlert(s, t)
    [] OTHER -> s

\* A heartbeat that is due already at 5000 ms.
heartbeatDue_Inclusive(s, t) == ULongSub(t, s.lastHeartbeatTime) >= 5000

\* A heartbeat that is due after 500 ms.
heartbeatDue_Short(s, t) == ULongSub(t, s.lastHeartbeatTime) > 500

\* line 88: a heartbeat is due
heartbeatDue(s, t) == ULongSub(t, s.lastHeartbeatTime) > 5000

\* A loop() that handles the alerts and the heartbeat whether or not the
\* system is active.
activePart_AlwaysActive(s, t) ==
  LET s1 == handleAlerts(s, t)
  IN  IF heartbeatDue(s1, t)
      THEN [sendHeartbeat(s1, t) EXCEPT !.lastHeartbeatTime = t]
      ELSE s1

\* lines 84-92 of loop()
activePart(s, t) ==
  IF s.systemActive
  THEN LET s1 == handleAlerts(s, t)
       IN  IF heartbeatDue(s1, t)
           THEN [sendHeartbeat(s1, t) EXCEPT !.lastHeartbeatTime = t]
           ELSE s1
  ELSE s

\* ------------------------------------------------------------------ time
\* setup() waits six times 200 ms in startupSequence before loop() first runs.
SetupMillis == 1200
\* line 94
LoopDelay == 50
\* Beyond its delay an iteration can stall, in the blocking serial read and in
\* the I2C writes to the haptic driver: a slow iteration is taken to last
\* 1 + StallDelays delays.
StallDelays == 19
IterationTimes == {LoopDelay, (1 + StallDelays) * LoopDelay}

\* ------------------------------------------------------------- loop steps
NoLine == [read |-> FALSE, text |-> <<>>]
Found ==
  [level |-> currentAlertLevel, start |-> alertStartTime,
   heartbeat |-> lastHeartbeatTime]

EmergencyCount(out) ==
  Cardinality({i \in DOMAIN out : out[i].type = "emergency"})

\* The heartbeats among the lines printed.
HeartbeatLines(out) == SelectSeq(out, LAMBDA m : m.type = "heartbeat")

\* Records the time of an emergency message and of a heartbeat the step has
\* printed.
Observe ==
  /\ emergencyAt' = IF EmergencyCount(serial') > EmergencyCount(serial)
                    THEN [last |-> now, previous |-> emergencyAt.last]
                    ELSE emergencyAt
  /\ heartbeatAt' =
       IF Len(HeartbeatLines(serial')) > Len(HeartbeatLines(serial))
       THEN now
       ELSE heartbeatAt

Install(s) ==
  /\ currentAlertLevel' = s.currentAlertLevel
  /\ lastBPTime' = s.lastBPTime
  /\ lastHeartbeatTime' = s.lastHeartbeatTime
  /\ alertStartTime' = s.alertStartTime
  /\ systemActive' = s.systemActive
  /\ emergencyMode' = s.emergencyMode
  /\ lastEscalation' = s.lastEscalation
  /\ toneHz' = s.toneHz
  /\ pin' = s.pin
  /\ nfpCommand' = s.nfpCommand
  /\ nfpIntensity' = s.nfpIntensity
  /\ serial' = s.serial

\* lines 77-81 with a line waiting: it is read, trimmed and processed
ReadCommand(lines, budget) ==
  /\ pc = "command"
  /\ linesRead < budget
  /\ linesRead' = linesRead + 1
  /\ \E raw \in lines :
       LET command == trim(raw)
       IN  /\ \E draw \in (IF isBPRequest(command)
                           THEN BPDraws(currentAlertLevel)
                           ELSE {<<0, 0, 0>>}) :
                Install(processCommand(State, command, now, draw))
           /\ line' = [read |-> TRUE, text |-> command]
  /\ Observe
  /\ before' = Found
  /\ pc' = "alerts"
  /\ UNCHANGED <<now, quick>>

\* lines 77-81 with nothing waiting on the serial port
NoCommand ==
  /\ pc = "command"
  /\ Install(State)
  /\ Observe
  /\ line' = NoLine
  /\ before' = Found
  /\ pc' = "alerts"
  /\ UNCHANGED <<now, linesRead, quick>>

\* lines 84-92
HandleAlerts ==
  /\ pc = "alerts"
  /\ Install(activePart(State, now))
  /\ Observe
  /\ pc' = "delay"
  /\ UNCHANGED <<now, line, linesRead, quick, before>>

\* line 94, and whatever else the iteration took; the next iteration starts
\* with nothing printed and nothing read.
Delay(times, maxQuick, horizon) ==
  /\ pc = "delay"
  /\ \E dt \in times :
       /\ now + dt <= horizon
       /\ dt = LoopDelay => quick < maxQuick
       /\ now' = now + dt
       /\ quick' = IF dt = LoopDelay THEN quick + 1 ELSE quick
  /\ pc' = "command"
  /\ serial' = <<>>
  /\ line' = NoLine
  /\ before' = Found
  /\ UNCHANGED <<currentAlertLevel, lastBPTime, lastHeartbeatTime,
                 alertStartTime, systemActive, emergencyMode, lastEscalation,
                 toneHz, pin, nfpCommand, nfpIntensity, linesRead,
                 emergencyAt, heartbeatAt>>

\* The state when setup() returns: the startup sequence has left every LED
\* low, its last tone (100 ms) has ended during the 200 ms wait that follows
\* it, and the haptic driver was activated at 50 and deactivated again.
Init ==
  /\ now = SetupMillis
  /\ pc = "command"
  /\ currentAlertLevel = 0
  /\ lastBPTime = 0
  /\ lastHeartbeatTime = 0
  /\ alertStartTime = 0
  /\ systemActive = FALSE
  /\ emergencyMode = FALSE
  /\ lastEscalation = 0
  /\ toneHz = 0
  /\ pin = [p \in DigitalPins |-> LOW]
  /\ nfpCommand = 0
  /\ nfpIntensity = MapIntensity(50)
  /\ serial = <<>>
  /\ line = NoLine
  /\ linesRead = 0
  /\ quick = 0
  /\ before = [level |-> 0, start |-> 0, heartbeat |-> 0]
  /\ emergencyAt = [last |-> -1, previous |-> -1]
  /\ heartbeatAt = -1

\* ------------------------------------------------------------ the host's lines
Alert(suffix) == ALERT_PREFIX \o suffix
AlertLines ==
  {Alert(<<"0">>), Alert(<<"1">>), Alert(<<"2">>), Alert(<<"3">>)}
BadAlertLines ==
  {Alert(<<"4">>), Alert(<<"-", "1">>), Alert(<<>>), Alert(<<"a", "b", "c">>),
   Alert(<<"6", "5", "5", "3", "7">>)}
OtherLines == {<<"R", "E", "S", "E", "T">>, INIT_LINE \o <<"\r">>}
HostLines ==
  {INIT_LINE, SHUTDOWN_LINE} \cup AlertLines \cup BadAlertLines \cup OtherLines

\* The number of lines the host sends in a run.
MaxLines == 3
\* The iterations without a stall in a run, and the stalled ones.
MaxQuick == 3
MaxStalled == 6
Horizon == SetupMillis + MaxQuick * LoopDelay
             + MaxStalled * (1 + StallDelays) * LoopDelay

Next ==
  \/ ReadCommand(HostLines, MaxLines)
  \/ NoCommand
  \/ HandleAlerts
  \/ Delay(IterationTimes, MaxQuick, Horizon)

Spec == Init /\ [][Next]_vars

\* ------------------------------------------------- a long emergency
\* The runs in which an emergency lasts long enough to escalate: the host
\* sends few lines, and the horizon is longer.
EmergencyLines ==
  {INIT_LINE, SHUTDOWN_LINE} \cup AlertLines
MaxEmergencyLines == 3
MaxEmergencyQuick == 2
MaxEmergencyStalled == 14
EmergencyHorizon == SetupMillis + MaxEmergencyQuick * LoopDelay
                      + MaxEmergencyStalled * (1 + StallDelays) * LoopDelay

NextEmergency ==
  \/ ReadCommand(EmergencyLines, MaxEmergencyLines)
  \/ NoCommand
  \/ HandleAlerts
  \/ Delay(IterationTimes, MaxEmergencyQuick, EmergencyHorizon)

SpecEmergency == Init /\ [][NextEmergency]_vars

\* ------------------------------------------- several emergency episodes
\* The runs in which an emergency escalates, ends and starts again: the
\* stalls are longer, so that the horizon holds two episodes.
LongStallDelays == 59
EpisodeTimes == {LoopDelay, (1 + LongStallDelays) * LoopDelay}
EpisodeLines == {INIT_LINE, SHUTDOWN_LINE, Alert(<<"3">>), Alert(<<"1">>)}
MaxEpisodeLines == 5
MaxEpisodeQuick == 2
MaxEpisodeStalled == 11
EpisodeHorizon == SetupMillis + MaxEpisodeQuick * LoopDelay
                    + MaxEpisodeStalled * (1 + LongStallDelays) * LoopDelay

NextEpisodes ==
  \/ ReadCommand(EpisodeLines, MaxEpisodeLines)
  \/ NoCommand
  \/ HandleAlerts
  \/ Delay(EpisodeTimes, MaxEpisodeQuick, EpisodeHorizon)

SpecEpisodes == Init /\ [][NextEpisodes]_vars

\* ------------------------------------------------- the end-to-end run
\* The host waits, sends INIT, ALERT:2 and BP_REQUEST:1 in three consecutive
\* iterations and is silent from then on; every iteration lasts one delay.
BPRequest(suffix) == BP_PREFIX \o suffix
EndToEndScript == <<INIT_LINE, Alert(<<"2">>), BPRequest(<<"1">>)>>

\* The host sends the next line of the script; the first line comes after
\* at most maxStart iterations.
ReadScript(script, maxStart) ==
  /\ linesRead < Len(script)
  /\ linesRead = 0 => quick <= maxStart
  /\ ReadCommand({script[linesRead + 1]}, Len(script))

\* The host sends nothing, before the script and after it.
ScriptSilence(script) ==
  /\ linesRead \in {0, Len(script)}
  /\ NoCommand

\* The iterations before the script at most, and those of a run: the
\* script, the 5000 ms after it, and two more.
MaxStartQuick == 82
MaxEndToEndQuick ==
  MaxStartQuick + Len(EndToEndScript) + 5000 \div LoopDelay + 2
EndToEndHorizon == SetupMillis + MaxEndToEndQuick * LoopDelay

NextEndToEnd ==
  \/ ReadScript(EndToEndScript, MaxStartQuick)
  \/ ScriptSilence(EndToEndScript)
  \/ HandleAlerts
  \/ Delay({LoopDelay}, MaxEndToEndQuick, EndToEndHorizon)

SpecEndToEnd == Init /\ [][NextEndToEnd]_vars

\* ------------------------------------------------- the alert patterns
\* The runs that show the patterns in full: every iteration lasts one delay,
\* and the host sends INIT and alert lines.
PatternLines == {INIT_LINE} \cup AlertLines
MaxPatternLines == 3
MaxPatternQuick == 44
PatternHorizon == SetupMillis + MaxPatternQuick * LoopDelay

NextPatterns ==
  \/ ReadCommand(PatternLines, MaxPatternLines)
  \/ NoCommand
  \/ HandleAlerts
  \/ Delay({LoopDelay}, MaxPatternQuick, PatternHorizon)

SpecPatterns == Init /\ [][NextPatterns]_vars

\* ------------------------------------------------------ the vitals
\* The runs with BP_REQUEST lines at every level: few iterations, each
\* lasting one delay.
VitalsLines == {INIT_LINE, BPRequest(<<"1">>)} \cup AlertLines
MaxVitalsLines == 3
MaxVitalsQuick == 3
VitalsHorizon == SetupMillis + MaxVitalsQuick * LoopDelay

NextVitals ==
  \/ ReadCommand(VitalsLines, MaxVitalsLines)
  \/ NoCommand
  \/ HandleAlerts
  \/ Delay({LoopDelay}, MaxVitalsQuick, VitalsHorizon)

SpecVitals == Init /\ [][NextVitals]_vars

\* ================================================================ claims
\* What the claims speak of.
BuzzerSilent == toneHz = 0
LEDsOff ==
  pin[LED_GREEN] = LOW /\ pin[LED_YELLOW] = LOW /\ pin[LED_RED] = LOW
HapticOff == nfpCommand = 0
VibratorOff == pin[VIBRATOR_PIN] = LOW
OutputsOff == BuzzerSilent /\ LEDsOff /\ HapticOff /\ VibratorOff

\* The globals and outputs of the sketch, without the model's bookkeeping.
sketchVars ==
  <<currentAlertLevel, lastBPTime, lastHeartbeatTime, alertStartTime,
    systemActive, emergencyMode, lastEscalation, toneHz, pin, nfpCommand,
    nfpIntensity, serial>>

\* The step reads the line l / an ALERT line / an ALERT line with argument n.
Reads(l) == pc = "command" /\ line'.read /\ line'.text = l
ReadsAlert == pc = "command" /\ line'.read /\ startsWith(line'.text, ALERT_PREFIX)
AlertArgument(l) == ToInt16(toInt(substring(l, 6)))
\* The state is the one a line l has just been processed in.
After(l) == pc = "alerts" /\ line.read /\ line.text = l

Heartbeats(out) == {i \in DOMAIN out : out[i].type = "heartbeat"}

\* The sketch only stores times it has read from millis().
TimesArePast ==
  /\ alertStartTime <= now
  /\ lastHeartbeatTime <= now
  /\ lastEscalation <= now
  /\ lastBPTime <= now

\* C1: in every reachable state emergencyMode is true exactly when the
\* level is Emergency (3), and every heartbeat printed carries
\* emergency == (alertLevel == 3).
C1_EmergencyModeIffEmergency ==
  /\ emergencyMode <=> (currentAlertLevel = 3)
  /\ \A i \in Heartbeats(serial) :
       (serial[i].emergency = "true") <=> (serial[i].alertLevel = 3)

\* C2: whenever the system is inactive the level is Normal and every
\* actuator output is de-asserted, whatever lines were received.
C2_InactiveIsNormalAndQuiet ==
  ~systemActive => (currentAlertLevel = 0 /\ OutputsOff)

\* C3: once SHUTDOWN has been processed, from whatever state, the system is
\* inactive at level Normal, not in emergency mode, with the buzzer silent,
\* all LEDs off, the haptic driver deactivated and the vibrator off; the rest
\* of the iteration leaves it so.
C3_ShutdownSilencesAll ==
  (line.read /\ line.text = SHUTDOWN_LINE) =>
    /\ ~systemActive
    /\ currentAlertLevel = 0
    /\ ~emergencyMode
    /\ OutputsOff

\* C3 witness: SHUTDOWN has just been processed in an emergency whose
\* escalation fired in the iteration before.
C3_Witness ==
  /\ After(SHUTDOWN_LINE)
  /\ before.level = 3
  /\ emergencyAt.last >= 0
  /\ now - emergencyAt.last <= (1 + StallDelays) * LoopDelay

\* C4: an ALERT line whose argument n is outside 0..3 changes nothing: level,
\* alert start time, emergency mode, activity and every output stay as they
\* were and nothing is printed.
C4_OutOfRangeLevelIsNoOp ==
  [][(ReadsAlert /\ (AlertArgument(line'.text) < 0
                     \/ AlertArgument(line'.text) > 3))
       => UNCHANGED sketchVars]_vars

\* C4 witness: a negative level has just been refused while the system was
\* active at level Critical with its red LED on.
C4_Witness ==
  /\ After(Alert(<<"-", "1">>))
  /\ systemActive
  /\ currentAlertLevel = 2
  /\ pin[LED_RED] = HIGH

\* C5: an ALERT line whose suffix is missing or not a number changes nothing:
\* level, alert start time, emergency mode and outputs stay as they were.
C5_MalformedAlertIsNoOp ==
  [][(Reads(Alert(<<>>)) \/ Reads(Alert(<<"a", "b", "c">>)))
       => UNCHANGED <<currentAlertLevel, alertStartTime, emergencyMode,
                      toneHz, pin, nfpCommand, nfpIntensity>>]_vars

\* C6: an ALERT line naming the level the system is already at leaves the
\* alert start time as it was, so the phase of the pattern goes on.
C6_SameLevelKeepsAlertStart ==
  [][(ReadsAlert /\ AlertArgument(line'.text) \in 0..3
                 /\ AlertArgument(line'.text) = currentAlertLevel)
       => alertStartTime' = alertStartTime]_vars

\* C6 witness: an alert level above Normal has just been set again, some
\* time after it was entered.
C6_Witness ==
  /\ \E k \in 1..3 : After(Alert(<<DigitSeq[k + 1]>>)) /\ before.level = k
  /\ systemActive
  /\ alertStartTime = before.start
  /\ alertStartTime < now

Escalates == EmergencyCount(serial') > EmergencyCount(serial)

\* C8 as claimed: in an active emergency the escalation fires exactly when the
\* emergency has lasted more than 10000 ms and at least 3000 ms have passed
\* since the previous escalation, 3000 included.
C8_EscalatesIffAtLeast3000 ==
  [][(pc = "alerts" /\ systemActive /\ currentAlertLevel = 3)
       => (Escalates <=> (/\ now - alertStartTime > 10000
                          /\ now - lastEscalation >= 3000))]_vars

\* C8 as amended: the escalation fires exactly when the emergency has lasted
\* more than 10000 ms and more than 3000 ms have passed since the previous
\* escalation; when it fires it drives the outputs to their maximum and
\* records the time.
C8_EscalatesIffMoreThan3000 ==
  [][(pc = "alerts" /\ systemActive /\ currentAlertLevel = 3)
       => /\ Escalates <=> (/\ now - alertStartTime > 10000
                            /\ now - lastEscalation > 3000)
          /\ Escalates => /\ toneHz' = 4500
                          /\ nfpCommand' = 1
                          /\ nfpIntensity' = 255
                          /\ pin'[VIBRATOR_PIN] = HIGH
                          /\ lastEscalation' = now]_vars

\* C8 witness: the alerts have been handled in an emergency older than
\* 10000 ms exactly 3000 ms after an escalation, and nothing was printed.
C8_Witness ==
  /\ pc = "delay"
  /\ systemActive
  /\ currentAlertLevel = 3
  /\ now - alertStartTime > 10000
  /\ emergencyAt.last = lastEscalation
  /\ now - lastEscalation = 3000
  /\ EmergencyCount(serial) = 0

\* C9: an emergency message is printed only by the alert handling of an active
\* system at level Emergency for more than 10000 ms, and never less than
\* 3000 ms after the emergency message before it, whatever happened between.
C9_EmergencyMessagesGatedAndSpaced ==
  [][Escalates
       => /\ pc = "alerts"
          /\ systemActive
          /\ currentAlertLevel = 3
          /\ now - alertStartTime > 10000
          /\ emergencyAt.last >= 0 => now - emergencyAt.last >= 3000]_vars

\* C9 witness: an emergency message has been printed in an emergency that
\* started after the emergency message before it.
C9_Witness ==
  /\ pc = "delay"
  /\ EmergencyCount(serial) = 1
  /\ emergencyAt.last = now
  /\ emergencyAt.previous >= 0
  /\ emergencyAt.previous < alertStartTime

SendsHeartbeat ==
  Len(HeartbeatLines(serial')) > Len(HeartbeatLines(serial))

\* C11: the alert phase of an iteration prints a heartbeat exactly when the
\* system is active after the iteration's command and the last heartbeat is
\* more than 5000 ms old; the heartbeat is the only one of the iteration, it
\* carries the level of that instant and the time becomes the last heartbeat
\* time, so it comes more than 5000 ms after the heartbeat before it; no
\* other step prints a heartbeat or changes the last heartbeat time.
C11_HeartbeatWhenDue ==
  [][/\ pc = "alerts" =>
          /\ SendsHeartbeat <=>
                systemActive /\ now - lastHeartbeatTime > 5000
          /\ SendsHeartbeat =>
                /\ Cardinality(Heartbeats(serial')) = 1
                /\ \A i \in Heartbeats(serial') :
                     /\ serial'[i].alertLevel = currentAlertLevel
                     /\ serial'[i].uptime = now
                /\ currentAlertLevel' = currentAlertLevel
                /\ lastHeartbeatTime' = now
                /\ heartbeatAt >= 0 => now - heartbeatAt > 5000
          /\ ~SendsHeartbeat => lastHeartbeatTime' = lastHeartbeatTime
     /\ pc # "alerts" =>
          /\ Heartbeats(serial') = {}
          /\ lastHeartbeatTime' = lastHeartbeatTime
     /\ ~systemActive' => Heartbeats(serial') = {}]_vars

\* C11 witness: a second heartbeat has been printed, at the Emergency level.
C11_Witness ==
  /\ pc = "delay"
  /\ before.heartbeat > 0
  /\ \E i \in Heartbeats(serial) : serial[i].alertLevel = 3

\* The script has been sent, and the 5000 ms after its BP_REQUEST last.
ScriptDone == linesRead = Len(EndToEndScript)
InWindow == ScriptDone /\ lastBPTime <= now /\ now <= lastBPTime + 5000

C13_InactiveTicksAreNoOps ==
  [][/\ (~systemActive /\ pc = "alerts") => UNCHANGED sketchVars
     /\ (~systemActive /\ pc = "delay") =>
          UNCHANGED <<currentAlertLevel, lastBPTime, lastHeartbeatTime,
                      alertStartTime, systemActive, emergencyMode,
                      lastEscalation, toneHz, pin, nfpCommand, nfpIntensity,
                      emergencyAt, heartbeatAt>>
     /\ (~systemActive /\ systemActive') => Reads(INIT_LINE)]_vars

\* C13 witness: the system has been active and printed a heartbeat, was shut
\* down and then given the Emergency level; more than 5000 ms after the
\* heartbeat an iteration has left the buzzer silent and printed nothing.
C13_Witness ==
  /\ pc = "delay"
  /\ ~systemActive
  /\ heartbeatAt >= 0
  /\ now - lastHeartbeatTime > 5000
  /\ currentAlertLevel = 3
  /\ BuzzerSilent
  /\ serial = <<>>

\* The state is the one the alert phase of an iteration leaves, with the
\* system active at the given level.
Ticked(level) ==
  pc = "delay" /\ systemActive /\ currentAlertLevel = level
\* The time since the level was entered.
Elapsed == now - alertStartTime
\* The haptic driver is on at the given intensity in percent.
HapticAt(intensity) ==
  nfpCommand = 1 /\ nfpIntensity = MapIntensity(intensity)

\* C14 as claimed: a tick at Critical leaves the buzzer at 3000 Hz with the
\* haptic driver at 50 when 300 ms have elapsed, and the buzzer at 3200 Hz
\* when 1000 ms have elapsed.
C14_CriticalAt300And1000 ==
  Ticked(2) =>
    /\ Elapsed = 300 => toneHz = 3000 /\ HapticAt(50)
    /\ Elapsed = 1000 => toneHz = 3200

\* C14 as amended: a tick at Critical leaves the buzzer at 3000 Hz with the
\* haptic driver at 50 when 300 ms have elapsed, the buzzer at 3200 Hz when
\* 600 ms have elapsed, and the buzzer silent with the haptic driver off
\* when 1000 ms have elapsed.
C14_CriticalAt300And600And1000 ==
  Ticked(2) =>
    /\ Elapsed = 300 => toneHz = 3000 /\ HapticAt(50)
    /\ Elapsed = 600 => toneHz = 3200
    /\ Elapsed = 1000 => BuzzerSilent /\ HapticOff

\* C14 witness: a tick at Critical 1000 ms after the level was entered.
C14_Witness == Ticked(2) /\ Elapsed = 1000

\* The step reads a BP_REQUEST line.
ReadsBPRequest == pc = "command" /\ line'.read /\ isBPRequest(line'.text)

\* The vitals the claim gives for each level.
VitalsAt(level) ==
  CASE level = 0 ->
         [systolic |-> 115..125, diastolic |-> 77..83, heartRate |-> 67..77]
    [] level = 1 ->
         [systolic |-> 125..134, diastolic |-> 83..87, heartRate |-> 77..86]
    [] level = 2 ->
         [systolic |-> 135..144, diastolic |-> 88..94, heartRate |-> 87..96]
    [] level = 3 ->
         [systolic |-> 145..159, diastolic |-> 95..104, heartRate |-> 97..111]

\* C15: a BP_REQUEST prints one bp message whose systolic, diastolic and
\* heart rate values lie in the ranges of the current level (Normal
\* 115..125, 77..83, 67..77; Warning 125..134, 83..87, 77..86; Critical
\* 135..144, 88..94, 87..96; Emergency 145..159, 95..104, 97..111), and
\* changes neither the level, the active flag, the emergency flag nor any
\* output.
C15_VitalsInRangeAndNothingElse ==
  [][ReadsBPRequest =>
       /\ Len(serial') = 1
       /\ serial'[1].type = "bp"
       /\ serial'[1].systolic \in VitalsAt(currentAlertLevel).systolic
       /\ serial'[1].diastolic \in VitalsAt(currentAlertLevel).diastolic
       /\ serial'[1].heartRate \in VitalsAt(currentAlertLevel).heartRate
       /\ serial'[1].timestamp = now
       /\ UNCHANGED <<currentAlertLevel, systemActive, emergencyMode,
                      alertStartTime, lastHeartbeatTime, lastEscalation,
                      toneHz, pin, nfpCommand, nfpIntensity>>]_vars

\* C15 witness: a BP_REQUEST in an active emergency has been answered with
\* the highest values of the Emergency ranges.
C15_Witness ==
  /\ After(BPRequest(<<"1">>))
  /\ systemActive /\ currentAlertLevel = 3
  /\ serial[1].systolic = 159
  /\ serial[1].diastolic = 104
  /\ serial[1].heartRate = 111

\* C16: unless the tick escalates, a tick at Warning leaves the buzzer at
\* 2500 Hz when the elapsed time modulo 2000 is below 400 and silent
\* otherwise; a tick at Critical leaves it at 3000 Hz in [0,400) of the
\* elapsed time modulo 1500, silent in [400,500), at 3200 Hz in [500,900)
\* and silent in [900,1500); a tick at Emergency leaves it at 4000 Hz with
\* the haptic driver at 100 and the vibrator on when the elapsed time modulo
\* 800 is below 400, and at 3800 Hz with the haptic driver at 80 and the
\* vibrator off otherwise.
C16_BuzzerFollowsWindows ==
  /\ Ticked(1) =>
       toneHz = IF Elapsed % 2000 < 400 THEN 2500 ELSE 0
  /\ Ticked(2) =>
       toneHz = IF Elapsed % 1500 < 400 THEN 3000
                ELSE IF Elapsed % 1500 < 500 THEN 0
                ELSE IF Elapsed % 1500 < 900 THEN 3200
                ELSE 0
  /\ (Ticked(3) /\ emergencyAt.last # now) =>
       IF Elapsed % 800 < 400
       THEN toneHz = 4000 /\ HapticAt(100) /\ pin[VIBRATOR_PIN] = HIGH
       ELSE toneHz = 3800 /\ HapticAt(80) /\ pin[VIBRATOR_PIN] = LOW

\* C16 witness: a tick at Warning in the second period of its pattern has
\* sounded the buzzer.
C16_Witness ==
  /\ Ticked(1)
  /\ Elapsed >= 2000
  /\ toneHz = 2500

\* C17: after every tick at Warning the haptic driver is on at intensity 30
\* exactly when the elapsed time modulo 5000 is below 200, and off
\* otherwise.
C17_WarningHapticPulses ==
  Ticked(1) =>
    IF Elapsed % 5000 < 200 THEN HapticAt(30) ELSE HapticOff

\* C18: after every tick at Emergency the red LED shows (now / 250) mod 2,
\* a flash with a period of 500 ms of the clock, and the green and the
\* yellow LED are off.
C18_EmergencyRedFlashes ==
  Ticked(3) =>
    /\ pin[LED_RED] = (now \div 250) % 2
    /\ pin[LED_GREEN] = LOW
    /\ pin[LED_YELLOW] = LOW

\* C19: after every tick of the active system at Normal, however the level
\* was reached, the buzzer is silent, the green LED is on, the yellow and
\* the red LED are off, the haptic driver is off and the vibrator is off.
C19_NormalTickOutputs ==
  Ticked(0) =>
    /\ BuzzerSilent
    /\ pin[LED_GREEN] = HIGH
    /\ pin[LED_YELLOW] = LOW
    /\ pin[LED_RED] = LOW
    /\ HapticOff
    /\ VibratorOff

\* The state of the sketch when loop() first runs.
BootState ==
  [currentAlertLevel |-> 0, lastBPTime |-> 0, lastHeartbeatTime |-> 0,
   alertStartTime |-> 0, systemActive |-> FALSE, emergencyMode |-> FALSE,
   lastEscalation |-> 0, toneHz |-> 0, pin |-> [p \in DigitalPins |-> LOW],
   nfpCommand |-> 0, nfpIntensity |-> MapIntensity(50), serial |-> <<>>]

\* The alert phases of the iterations from one time to another, one delay
\* apart, none of which reads a line.
RECURSIVE TicksUntil(_, _, _)
TicksUntil(s, from, to) ==
  IF from > to
  THEN s
  ELSE TicksUntil(activePart(s, from), from + LoopDelay, to)

\* The plainest history that ends in a tick at time t with the given level
\* and elapsed time: after boot the host sends INIT, in the next iteration
\* ALERT:<level>, and nothing more.
ReferenceRun(level, elapsed, t) ==
  LET start == t - elapsed
      s0 == processCommand(BootState, INIT_LINE, start - LoopDelay,
                           <<0, 0, 0>>)
      s1 == activePart(s0, start - LoopDelay)
      s2 == processCommand(s1, Alert(<<DigitSeq[level + 1]>>), start,
                           <<0, 0, 0>>)
  IN  TicksUntil(s2, start, t)

\* C20: the outputs a tick leaves are a function of the level, the elapsed
\* time and the clock alone: after a tick at Warning, Critical or Emergency
\* that does not escalate, the buzzer, the LEDs, the haptic driver and the
\* vibrator are as the plainest history with the same level, elapsed time
\* and clock leaves them, whatever the history of the run.
C20_TickOutputsIgnoreHistory ==
  (/\ pc = "delay" /\ systemActive /\ currentAlertLevel \in 1..3
   /\ emergencyAt.last # now) =>
    LET r == ReferenceRun(currentAlertLevel, Elapsed, now)
    IN  /\ toneHz = r.toneHz
        /\ pin = r.pin
        /\ nfpCommand = r.nfpCommand
        /\ nfpCommand = 1 => nfpIntensity = r.nfpIntensity

====
